---- MODULE Spec2Model ----
(***************************************************************************)
(* A model of the tensorforce core: the Agent control loop (agent.py), the *)
(* variable-capturing templates of Layer / Network / Baseline (layer.py,   *)
(* network.py, baseline.py) and the actor-critic model with target         *)
(* networks (dpg_target_model.py).                                         *)
(*                                                                         *)
(* Three specifications share the module:                                  *)
(*   SpecAgent  the Agent's reset / act loop                               *)
(*   SpecGraph  graph construction: templates, scopes, parameter capture   *)
(*   SpecDPG    DPGTargetModel: construction and optimization steps        *)
(***************************************************************************)
EXTENDS Integers, Sequences, FiniteSets, TLC

VARIABLES
    \* ---- Agent (agent.py) ----
    config,         \* the configuration the Agent was constructed from
    episode,        \* Agent.episode
    timestep,       \* Agent.timestep
    hasInternal,    \* whether the attributes internal / next_internal exist yet
    internal,       \* Agent.internal
    next_internal,  \* Agent.next_internal
    ppCount,        \* per pipeline: items processed since its last reset()
    trace,          \* what the last call did, as its caller and the Model saw it
    called,         \* how many reset / act calls the Agent's caller has made
    \* ---- DPGTargetModel (dpg_target_model.py) ----
    modelConfig,    \* memory, target_sync_frequency, target_update_weight, ...
    pc,             \* where the constructor is: "start" ... "ready" / "raised"
    raisedBy,       \* what made the constructor raise, "" if nothing did
    built,          \* the networks and optimizers built so far
    builtOps,       \* the sub-operations tf_optimization has built so far
    updateOp,       \* the operation tf_optimization returned: a set of sub-operations
    params,         \* the value of every network / distribution parameter
    modelTimestep,  \* Model.timestep
    pending,        \* sub-operations of the running update still to execute
    applied,        \* sub-operations of the last update that have executed
    writers,        \* per variable: the sub-operations that wrote it in the last update
    stepTime,       \* Model.timestep of the last update
    before,         \* the parameter values when the last update started
    batch,          \* the transition batch the running update was fed
    tensors,        \* the tensors of tf_optimization, once the run evaluated them
    \* ---- graph construction (layer.py, network.py, dpg_target_model.py) ----
    graphConfig,    \* the network class, its layers_spec and the input's rank
    scopeCount,     \* how many variable scopes called 'apply' the graph has opened
    store,          \* the graph's variable store: full name -> variable
    serial,         \* how many variables the store has created
    objs,           \* every Layer / Network object constructed, in order
    nets,           \* the objects that are networks, in construction order
    hist            \* per network: its apply calls and what the first one left

agentVars == <<config, episode, timestep, hasInternal, internal, next_internal,
               ppCount, trace, called>>

dpgVars == <<modelConfig, pc, raisedBy, built, builtOps, updateOp, params,
             modelTimestep, pending, applied, writers, stepTime, before,
             batch, tensors>>

graphVars == <<graphConfig, scopeCount, store, serial, objs, nets, hist>>

vars == <<agentVars, dpgVars, graphVars>>

----------------------------------------------------------------------------
(* Bounds of the model.                                                    *)

MaxEpisodes == 2     \* reset calls explored
MaxTimesteps == 2    \* act calls explored
NumActions == 2      \* num_actions of a discrete action
MaxSyncFrequency == 2  \* target_sync_frequency values explored
MaxModelTimestep == 3  \* Model.timestep values explored

\* The key sets of a named configuration: one name, or several.
StateKeySets == {{"s1"}, {"s1", "s2"}}
ActionKeySets == {{"a2"}, {"a1", "a2"}}
\* The names that may carry a preprocessing pipeline.
PreprocessedNames == {"state", "s1"}
\* Internal-state values the Model can return, raw observations per name.
InternalVals == {0, 1}
StateVals == {0, 1}
\* Action values: a discrete action is an index, a continuous one a number;
\* additive noise may move a continuous action by one.
ModelActionVals == 0 .. (NumActions - 1)
NoiseVals == {0, 1}
\* Substitution probability and the draw of random(), both in halves:
\* random() lies in [0, 1), so the draw is 0 or 1/2; epsilon is 0, 1/2 or 1.
EpsilonVals == {0, 1, 2}
RandomVals == {0, 1}

----------------------------------------------------------------------------
(* Values crossing the Agent's boundary: a bare value or a mapping.        *)

EmptyMap == [n \in {} |-> 0]
Bare(v) == [tag |-> "bare", v |-> v, m |-> EmptyMap]
Mapping(f) == [tag |-> "map", v |-> 0, m |-> f]

\* dict(state=state), dict(action=action)
Wrap(key, x) == [n \in {key} |-> x.v]
\* state['state'], action['action']
Unwrap(key, f) == Bare(f[key])

----------------------------------------------------------------------------
(* Agent.__init__                                                          *)

\* The configurations explored. config.states / config.actions are given
\* by their top-level key sets: a single unnamed entry has the keys of a
\* state (type, shape) or action (continuous, num_actions) specification,
\* a named mapping has the names.  The names a caller uses are distinct from
\* those field names.
SingleStateKeys == {"type", "shape"}
SingleActionKeys == {"continuous", "num_actions"}

Continuous == [continuous |-> TRUE, num_actions |-> 0]
Discrete == [continuous |-> FALSE, num_actions |-> NumActions]

\* The action specifications, keyed as after normalisation: a single action
\* of either kind, or named actions of which a1 is continuous and a2 discrete.
ActionSpecsOf(keys) ==
    IF keys = SingleActionKeys
    THEN { [n \in {"action"} |-> k] : k \in {Continuous, Discrete} }
    ELSE { [n \in keys |-> IF n = "a1" THEN Continuous ELSE Discrete] }

Configs ==
    { c \in [ statesKeys : {SingleStateKeys} \cup StateKeySets,
              actionsKeys : {SingleActionKeys} \cup ActionKeySets,
              actionsSpec : UNION { ActionSpecsOf(ks) :
                                ks \in {SingleActionKeys} \cup ActionKeySets },
              \* None (the empty set), or the names with a preprocessing spec
              preprocessing : SUBSET PreprocessedNames,
              \* None, or the names with an exploration spec
              exploration : SUBSET {"action", "a1", "a2"} ] :
        /\ c.actionsSpec \in ActionSpecsOf(c.actionsKeys)
        /\ c.preprocessing \subseteq
             (IF c.statesKeys = SingleStateKeys THEN {"state"} ELSE c.statesKeys)
        /\ c.exploration \subseteq DOMAIN c.actionsSpec
        \* the state side and the action side of act do not interact: one of
        \* the two is the plainest (a lone unprocessed state, or a lone
        \* unexplored continuous action) while the other one varies
        /\ \/ c.statesKeys = SingleStateKeys /\ c.preprocessing = {}
           \/ /\ c.actionsKeys = SingleActionKeys
              /\ c.exploration = {}
              /\ c.actionsSpec["action"].continuous }

\* if 'type' in config.states: ... self.unique_state = True
unique_state(c) == "type" \in c.statesKeys
\* if 'continuous' in config.actions: ... self.unique_action = True
unique_action(c) == "continuous" \in c.actionsKeys
\* config.states = dict(state=config.states)
states_config(c) == IF unique_state(c) THEN {"state"} ELSE c.statesKeys
\* config.actions = dict(action=config.actions)
actions_config(c) == c.actionsSpec
\* self.preprocessing[name] = ... for the names of config.states
preprocessing(c) == c.preprocessing \cap states_config(c)
\* self.exploration[name] = ... for the names of config.actions
exploration(c) == c.exploration \cap DOMAIN actions_config(c)
\* self.continuous_actions
continuous_actions(c) ==
    { n \in DOMAIN actions_config(c) : actions_config(c)[n].continuous }

NoTrace == [ op |-> "none", given |-> Bare(0), retState |-> Bare(0),
             retAction |-> Bare(0), modelState |-> EmptyMap,
             modelAction |-> EmptyMap, passedInternal |-> 0,
             modelNext |-> 0, resetValue |-> 0, sinceReset |-> 0,
             prevNext |-> 0, staleNext |-> 0, staleFromAct |-> FALSE,
             explorationOut |-> EmptyMap, substituted |-> {},
             explored |-> EmptyMap, branch |-> EmptyMap ]

\* No call made yet.
NoCalls == [ reset |-> 0, act |-> 0 ]

\* The other components, not constructed.
NoModelConfig == [ include_next_states |-> TRUE, target_sync_frequency |-> 1,
                   target_update_weight |-> 2, critic_optimizer |-> "sgd",
                   discount |-> 2 ]

\* No batch fed, no tensor evaluated.
NoBatch == [ states |-> 0, actions |-> 0, reward |-> 0, next_states |-> 0 ]
NoTensors == EmptyMap

NoModel ==
    /\ modelConfig = NoModelConfig
    /\ pc = "absent"
    /\ raisedBy = ""
    /\ built = {}
    /\ builtOps = <<>>
    /\ updateOp = {}
    /\ params = EmptyMap
    /\ modelTimestep = 0
    /\ pending = {}
    /\ applied = {}
    /\ writers = EmptyMap
    /\ stepTime = 0
    /\ before = EmptyMap
    /\ batch = NoBatch
    /\ tensors = NoTensors

NoGraphConfig == [ kind |-> "none", layers_spec |-> <<>>, rank |-> 2,
                   x |-> "tensor", x_actions |-> "tensor" ]

NoGraph ==
    /\ graphConfig = NoGraphConfig
    /\ scopeCount = 0
    /\ store = EmptyMap
    /\ serial = 0
    /\ objs = <<>>
    /\ nets = <<>>
    /\ hist = EmptyMap

InitAgent ==
    /\ NoModel
    /\ NoGraph
    /\ config \in Configs
    /\ episode = 0
    /\ timestep = 0
    /\ hasInternal = FALSE
    /\ internal = 0
    /\ next_internal = 0
    /\ ppCount = [n \in preprocessing(config) |-> 0]
    /\ trace = NoTrace
    /\ called = NoCalls

----------------------------------------------------------------------------
(* Agent.reset                                                             *)

ResetInternalOnly(r, oldNext) == [internal |-> r, next_internal |-> oldNext]

\* self.internal = self.next_internal = self.model.reset()
ResetInternal(r, oldNext) == [internal |-> r, next_internal |-> r]

\* for preprocessing in self.preprocessing.values(): preprocessing.reset()
ResetPreprocessing(pp) == [n \in DOMAIN pp |-> 0]

ResetCountersRestartingTimestep(e, t) == [episode |-> e + 1, timestep |-> 0]

\* self.episode += 1; reset does not touch self.timestep
ResetCounters(e, t) == [episode |-> e + 1, timestep |-> t]

Reset ==
    /\ episode < MaxEpisodes
    /\ \E r \in InternalVals :              \* what Model.reset() returns
         LET ri == ResetInternal(r, next_internal)
             rc == ResetCounters(episode, timestep) IN
         /\ episode' = rc.episode
         /\ timestep' = rc.timestep
         /\ internal' = ri.internal
         /\ next_internal' = ri.next_internal
         /\ hasInternal' = TRUE
         /\ ppCount' = ResetPreprocessing(ppCount)
         /\ trace' = [NoTrace EXCEPT !.op = "reset", !.resetValue = r,
                                     !.sinceReset = 0,
                                     \* what the episode before left behind
                                     !.staleNext = next_internal,
                                     !.staleFromAct = (trace.op = "act")]
    /\ called' = [called EXCEPT !.reset = @ + 1]
    /\ UNCHANGED config
    /\ UNCHANGED dpgVars
    /\ UNCHANGED graphVars

----------------------------------------------------------------------------
(* Agent.act                                                               *)

\* What a caller hands to act: the shape the configuration declares (in a
\* named configuration every name carries the same raw reading).
GivenStates ==
    IF unique_state(config)
    THEN { Bare(v) : v \in StateVals }
    ELSE { Mapping([n \in states_config(config) |-> v]) : v \in StateVals }

\* if self.unique_state: state = dict(state=state)
NormalizeState(given) ==
    IF unique_state(config) THEN Wrap("state", given) ELSE given.m

\* preprocessing.process(state=...): a stateful transform of one observation
Process(v, k) == (v + k + 1) % 2

\* for name, preprocessing in self.preprocessing.items():
\*     state[name] = preprocessing.process(state=state[name])
Preprocess(state) ==
    [n \in DOMAIN state |->
        IF n \in preprocessing(config) THEN Process(state[n], ppCount[n])
                                       ELSE state[n]]

\* the exploration loop: additive noise for the continuous names, a sampled
\* index with probability exploration(...) for the others
\* Exploration that treats every explored name as a discrete one.
ExplorationBranchIgnoringKind(n, out, rnd) ==
    IF n \notin exploration(config) THEN "none"
    ELSE IF rnd[n] < out[n] THEN "substitute" ELSE "keep"

\* The branch of the exploration loop that name n takes: noise is added to a
\* continuous action; a discrete one is replaced if random() is below the
\* value the exploration returned, and kept otherwise.
ExplorationBranch(n, out, rnd) ==
    IF n \notin exploration(config) THEN "none"
    ELSE IF n \in continuous_actions(config) THEN "add"
    ELSE IF rnd[n] < out[n] THEN "substitute" ELSE "keep"

\* Exploration that assigns the noise instead of adding it.
ExploreAssigns(action, out, rnd, pick) ==
    [n \in DOMAIN action |->
        CASE ExplorationBranch(n, out, rnd) = "add" -> out[n]
          [] ExplorationBranch(n, out, rnd) = "substitute" -> pick[n]
          [] OTHER -> action[n]]

Explore(action, out, rnd, pick) ==
    [n \in DOMAIN action |->
        CASE ExplorationBranch(n, out, rnd) = "add" -> action[n] + out[n]
          [] ExplorationBranch(n, out, rnd) = "substitute" -> pick[n]
          [] OTHER -> action[n]]

DenormalizeStateForgotten(state) == Mapping(state)

\* if self.unique_state: state = state['state']
DenormalizeState(state) ==
    IF unique_state(config) THEN Unwrap("state", state) ELSE Mapping(state)

\* if self.unique_action: action = action['action']
DenormalizeAction(action) ==
    IF unique_action(config) THEN Unwrap("action", action) ELSE Mapping(action)

PassedInternalNotRefreshed == internal

\* self.internal = self.next_internal
PassedInternal == next_internal

\* exploration(episode=..., timestep=...) per explored name: the noise added
\* to a continuous action, the substitution probability of a discrete one.
ExplorationOutputs ==
    { o \in [exploration(config) -> NoiseVals \cup EpsilonVals] :
        \A n \in exploration(config) :
            o[n] \in (IF n \in continuous_actions(config) THEN NoiseVals
                                                         ELSE EpsilonVals) }

\* The draws one act call consumes: random() and randrange() are called only
\* for a discrete explored name, randrange only when the draw is below the
\* substitution probability.
Draws(out) ==
    { d \in [ rnd : [exploration(config) -> RandomVals],
              pick : [exploration(config) -> 0 .. (NumActions - 1)] ] :
        \A n \in exploration(config) :
            /\ (n \in continuous_actions(config)) => (d.rnd[n] = 0)
            /\ (n \in continuous_actions(config) \/ ~(d.rnd[n] < out[n]))
                   => (d.pick[n] = 0) }

Act ==
    /\ timestep < MaxTimesteps
    /\ hasInternal
    /\ \E given \in GivenStates,
          modelAction \in [DOMAIN actions_config(config) -> ModelActionVals],
          modelNext \in InternalVals,
          out \in ExplorationOutputs :
        \E d \in Draws(out) :
         LET state == Preprocess(NormalizeState(given))
             action == Explore(modelAction, out, d.rnd, d.pick)
         IN
         /\ timestep' = timestep + 1
         /\ internal' = PassedInternal
         /\ next_internal' = modelNext
         /\ ppCount' = [n \in DOMAIN ppCount |-> (ppCount[n] + 1) % 2]
         /\ trace' = [ op |-> "act",
                       given |-> given,
                       retState |-> DenormalizeState(state),
                       retAction |-> DenormalizeAction(action),
                       modelState |-> state,
                       modelAction |-> modelAction,
                       passedInternal |-> PassedInternal,
                       modelNext |-> modelNext,
                       resetValue |-> trace.resetValue,
                       sinceReset |-> trace.sinceReset + 1,
                       prevNext |-> trace.modelNext,
                       staleNext |-> trace.staleNext,
                       staleFromAct |-> trace.staleFromAct,
                       explorationOut |-> out,
                       substituted |->
                           { n \in exploration(config) \ continuous_actions(config) :
                                 d.rnd[n] < out[n] },
                       explored |-> action,
                       branch |-> [n \in DOMAIN modelAction |->
                                      ExplorationBranch(n, out, d.rnd)] ]
    /\ called' = [called EXCEPT !.act = @ + 1]
    /\ UNCHANGED <<config, episode, hasInternal>>
    /\ UNCHANGED dpgVars
    /\ UNCHANGED graphVars

\* act before the first reset: timestep is incremented, then reading
\* self.next_internal raises AttributeError.
ActBeforeReset ==
    /\ timestep < MaxTimesteps
    /\ ~hasInternal
    /\ timestep' = timestep + 1
    /\ trace' = [NoTrace EXCEPT !.op = "raised"]
    /\ called' = [called EXCEPT !.act = @ + 1]
    /\ UNCHANGED <<config, episode, hasInternal, internal, next_internal, ppCount>>
    /\ UNCHANGED dpgVars
    /\ UNCHANGED graphVars

NextAgent == Reset \/ Act \/ ActBeforeReset

SpecAgent == InitAgent /\ [][NextAgent]_vars

----------------------------------------------------------------------------
(* Properties of the Agent                                                 *)

\* C9: act mirrors the shape of the configuration.  Configured with a single
\* unnamed state, act is given a bare state and returns a bare state;
\* configured with named states, it returns a mapping with exactly the key
\* set it was given.  Configured with a single unnamed action it returns a
\* bare action; configured with named actions, a mapping with exactly the
\* key set the Model produced.
C9_ActMirrorsConfiguration ==
    (trace.op = "act") =>
        /\ (config.statesKeys = SingleStateKeys) =>
               (trace.given.tag = "bare" /\ trace.retState.tag = "bare")
        /\ (config.statesKeys # SingleStateKeys) =>
               /\ trace.given.tag = "map"
               /\ trace.retState.tag = "map"
               /\ DOMAIN trace.retState.m = DOMAIN trace.given.m
        /\ (config.actionsKeys = SingleActionKeys) =>
               trace.retAction.tag = "bare"
        /\ (config.actionsKeys # SingleActionKeys) =>
               /\ trace.retAction.tag = "map"
               /\ DOMAIN trace.retAction.m = DOMAIN trace.modelAction

\* An act of an Agent with a single unnamed state and a single unnamed,
\* explored action has returned.
C9_Witness ==
    /\ trace.op = "act"
    /\ config.statesKeys = SingleStateKeys
    /\ config.actionsKeys = SingleActionKeys
    /\ config.exploration = {"action"}
    /\ trace.retState.tag = "bare"
    /\ trace.retAction.tag = "bare"

\* C10: the first act after a reset passes to Model.get_action exactly the
\* internal state Model.reset() returned in that reset.
C10_FirstActUsesResetInternal ==
    (trace.op = "act" /\ trace.sinceReset = 1) =>
        trace.passedInternal = trace.resetValue

\* The first act of a second episode, whose reset returned another internal
\* state than the one the previous episode's last act had left behind.
C10_Witness ==
    /\ trace.op = "act"
    /\ trace.sinceReset = 1
    /\ episode = 2
    /\ trace.staleFromAct
    /\ trace.staleNext # trace.resetValue
    /\ trace.passedInternal = trace.resetValue

\* C11: when the exploration of a single continuous action returns 0, act
\* returns the action Model.get_action proposed, unchanged.
C11_ZeroNoiseLeavesActionUnchanged ==
    ( /\ trace.op = "act"
      /\ unique_action(config)
      /\ "action" \in continuous_actions(config)
      /\ "action" \in exploration(config)
      /\ trace.explorationOut["action"] = 0 )
    => trace.retAction = Bare(trace.modelAction["action"])

\* An act whose model proposed a non-zero continuous action and whose
\* exploration returned 0.
C11_Witness ==
    /\ trace.op = "act"
    /\ unique_action(config)
    /\ "action" \in continuous_actions(config)
    /\ "action" \in exploration(config)
    /\ trace.explorationOut["action"] = 0
    /\ trace.modelAction["action"] = 1
    /\ trace.retAction = Bare(1)

\* C12: a discrete action whose exploration returns the substitution
\* probability 1 (2 halves) is replaced in every act by a sampled index, and
\* what act returns for it lies in 0 .. num_actions - 1; a continuous action
\* never takes the substitution branch.
C12_SubstitutionAtProbabilityOne ==
    (trace.op = "act") =>
        \A n \in DOMAIN trace.modelAction :
            /\ ( /\ n \in exploration(config)
                 /\ n \notin continuous_actions(config)
                 /\ trace.explorationOut[n] = 2 )
               => /\ trace.branch[n] = "substitute"
                  /\ trace.explored[n] \in 0 .. (actions_config(config)[n].num_actions - 1)
                  /\ trace.retAction = DenormalizeAction(trace.explored)
            /\ (n \in continuous_actions(config)) => (trace.branch[n] # "substitute")

\* An act with an explored continuous and an explored discrete action, the
\* discrete one replaced, at probability 1, by another index than the model's.
C12_Witness ==
    /\ trace.op = "act"
    /\ {"a1", "a2"} \subseteq exploration(config)
    /\ trace.explorationOut["a2"] = 2
    /\ trace.branch["a2"] = "substitute"
    /\ trace.branch["a1"] = "add"
    /\ trace.explored["a2"] # trace.modelAction["a2"]

\* C21: after any sequence of reset and act calls, episode is the number of
\* reset calls made and timestep the number of act calls made (reset adds
\* one to episode and leaves timestep alone, act adds one to timestep and
\* leaves episode alone), and a reset leaves every preprocessing pipeline
\* reset.
C21_CountersCountCalls ==
    /\ episode = called.reset
    /\ timestep = called.act
    /\ (trace.op = "reset") => \A n \in DOMAIN ppCount : ppCount[n] = 0

\* A second reset, made after an act whose pipelines had processed an
\* observation: the timestep is still that of the act.
C21_Witness ==
    /\ trace.op = "reset"
    /\ trace.staleFromAct
    /\ called.reset = 2
    /\ called.act = 1
    /\ episode = 2
    /\ timestep = 1
    /\ preprocessing(config) # {}

\* C22: an act that follows another act of the same episode passes to
\* Model.get_action exactly the next-internal value Model.get_action returned
\* in that act; and after every act the Agent holds, untouched by
\* preprocessing and exploration, the value passed as internal and the value
\* returned as next_internal.
C22_InternalIsCarriedForward ==
    (trace.op = "act") =>
        /\ (trace.sinceReset >= 2) => (trace.passedInternal = trace.prevNext)
        /\ internal = trace.passedInternal
        /\ next_internal = trace.modelNext

\* The second act of an episode, with preprocessing at work, passes a value
\* its predecessor returned and that differs from the one the reset gave
\* and from the one this act returns.
C22_Witness ==
    /\ trace.op = "act"
    /\ trace.sinceReset = 2
    /\ preprocessing(config) # {}
    /\ trace.prevNext # trace.resetValue
    /\ trace.passedInternal = trace.prevNext
    /\ trace.modelNext # trace.passedInternal

----------------------------------------------------------------------------
(* DPGTargetModel: construction                                            *)

\* Parameter values, and the update weight in halves (1/2 or 1).
ParamVals == {0, 1}
UpdateWeights == {1, 2}
\* The discount factor: other than one, so that discount * q is not q.
Discounts == {2}
\* The transition batches fed to an update: a sample in which every field
\* takes both values and next_states differs from states.
BatchVals == {0, 1}
Batches ==
    { b \in [ states : BatchVals, actions : BatchVals, reward : BatchVals,
              next_states : BatchVals ] :
        /\ b.next_states # b.states
        /\ b.reward = (b.states + b.actions) % 2 }

ModelConfigs ==
    [ include_next_states : BOOLEAN,                 \* memory["include_next_states"]
      target_sync_frequency : 1 .. MaxSyncFrequency,
      target_update_weight : UpdateWeights,
      critic_optimizer : {"sgd", "adam"},            \* critic_optimizer spec
      discount : Discounts ]

\* The objects DPGTargetModel owns.  The critic and the target critic are two
\* DDPGCriticNetwork objects, both constructed with scope 'critic'.
network == "network"                      \* the actor, built by the parent
distributions == "distributions"
target_network == "target-network"        \* Network.from_spec(..., scope='target-network')
target_distributions == "target-distributions"   \* self.create_distributions()
critic == "critic"                        \* DDPGCriticNetwork(scope='critic', ...)
target_critic_aliased == critic
target_critic == "critic_1"               \* DDPGCriticNetwork(scope='critic', ...)
optimizer == "optimizer"
critic_optimizer == "critic-optimizer"
target_network_optimizer == "target-network-optimizer"
target_critic_optimizer == "target-critic-optimizer"

Var(owner, name) == <<owner, name>>

\* Network.get_variables(): the parameters of one network, by name
NetworkVariables(net) == << Var(net, "W") >>

\* get_distributions_variables(distributions)
get_distributions_variables(d) == << Var(d, "W") >>

\* Optimizer.get_variables(): the optimizer's own variables (none for plain
\* gradient descent, moment estimates for an adaptive optimizer)
OptimizerVariables(o, kind) ==
    IF kind = "adam" THEN << Var(o, "m") >> ELSE << >>

\* Synchronization.get_variables(): its internal counter
SynchronizationVariables(o) == << Var(o, "last-sync") >>

Range(seq) == { seq[i] : i \in DOMAIN seq }

\* The variables that carry a value in the model: network and distribution
\* parameters, live and target.
LiveActorVars == Range(NetworkVariables(network))
                   \cup Range(get_distributions_variables(distributions))
LiveCriticVars == Range(NetworkVariables(critic))
TargetActorVars == Range(NetworkVariables(target_network))
TargetDistributionVars == Range(get_distributions_variables(target_distributions))
TargetCriticVars == Range(NetworkVariables(target_critic))
TargetVars == TargetActorVars \cup TargetDistributionVars \cup TargetCriticVars
ValuedVars == LiveActorVars \cup LiveCriticVars \cup TargetVars

Components == { network, distributions, optimizer, target_network,
                target_network_optimizer, target_distributions, critic,
                critic_optimizer, target_critic, target_critic_optimizer }

SubOps == { "critic_optimization", "optimization", "target_optimization",
            "target_critic_optimization" }
SyncOps == { "target_optimization", "target_critic_optimization" }

\* tf_optimization builds its sub-operations in this order
BuildOrder == << "critic_optimization", "optimization", "target_optimization",
                 "target_critic_optimization" >>

InitDPG ==
    /\ NoGraph
    /\ config = CHOOSE c \in Configs : TRUE
    /\ episode = 0 /\ timestep = 0 /\ hasInternal = FALSE
    /\ internal = 0 /\ next_internal = 0
    /\ ppCount = EmptyMap /\ trace = NoTrace /\ called = NoCalls
    /\ modelConfig \in ModelConfigs
    /\ pc = "start"
    /\ raisedBy = ""
    /\ built = {}
    /\ builtOps = <<>>
    /\ updateOp = {}
    /\ params = EmptyMap
    /\ modelTimestep = 0
    /\ pending = {}
    /\ applied = {}
    /\ writers = EmptyMap
    /\ stepTime = 0
    /\ before = EmptyMap
    /\ batch = NoBatch
    /\ tensors = NoTensors

\* DPGTargetModel.initialize, reached from the parent constructor: the actor
\* (parent), then the target network, the critic, the target critic and their
\* optimizers.  Live and target parameters are initialised independently.
Initialize ==
    /\ pc = "start"
    /\ \E live \in ParamVals, target \in ParamVals :
         params' = [v \in ValuedVars |-> IF v \in TargetVars THEN target ELSE live]
    /\ built' = Components
    /\ pc' = "optimization"
    /\ UNCHANGED <<modelConfig, raisedBy, builtOps, updateOp, modelTimestep,
                   pending, applied, writers, stepTime, before,
                   batch, tensors>>
    /\ UNCHANGED agentVars
    /\ UNCHANGED graphVars

\* tf_optimization: one minimize(...) call builds one sub-operation
BuildSubOp ==
    /\ pc = "optimization"
    /\ Len(builtOps) < Len(BuildOrder)
    /\ builtOps' = Append(builtOps, BuildOrder[Len(builtOps) + 1])
    /\ UNCHANGED <<modelConfig, pc, raisedBy, built, updateOp, params,
                   modelTimestep, pending, applied, writers, stepTime, before,
                   batch, tensors>>
    /\ UNCHANGED agentVars
    /\ UNCHANGED graphVars

\* ... or raises, and the constructor with it
BuildRaises ==
    /\ pc = "optimization"
    /\ Len(builtOps) < Len(BuildOrder)
    /\ pc' = "raised"
    /\ raisedBy' = "tf_optimization"
    /\ UNCHANGED <<modelConfig, built, builtOps, updateOp, params,
                   modelTimestep, pending, applied, writers, stepTime, before,
                   batch, tensors>>
    /\ UNCHANGED agentVars
    /\ UNCHANGED graphVars

GroupWithoutTargetCritic(ops) == Range(ops) \ {"target_critic_optimization"}

\* return tf.group(critic_optimization, optimization, target_optimization,
\*                 target_critic_optimization)
Group(ops) == Range(ops)

ReturnGroup ==
    /\ pc = "optimization"
    /\ Len(builtOps) = Len(BuildOrder)
    /\ updateOp' = Group(builtOps)
    /\ pc' = "assert"
    /\ UNCHANGED <<modelConfig, raisedBy, built, builtOps, params,
                   modelTimestep, pending, applied, writers, stepTime, before,
                   batch, tensors>>
    /\ UNCHANGED agentVars
    /\ UNCHANGED graphVars

\* assert self.memory_spec["include_next_states"], after the parent constructor
AssertNextStates ==
    /\ pc = "assert"
    /\ IF modelConfig.include_next_states
       THEN pc' = "ready" /\ raisedBy' = raisedBy
       ELSE pc' = "raised" /\ raisedBy' = "assert"
    /\ UNCHANGED <<modelConfig, built, builtOps, updateOp, params,
                   modelTimestep, pending, applied, writers, stepTime, before,
                   batch, tensors>>
    /\ UNCHANGED agentVars
    /\ UNCHANGED graphVars

----------------------------------------------------------------------------
(* DPGTargetModel: the optimization step                                   *)

CriticOptimizationVariablesOfBoth ==
    NetworkVariables(critic) \o NetworkVariables(target_critic)

\* critic_optimizer.minimize(variables=self.critic.get_variables(), ...)
CriticOptimizationVariables == NetworkVariables(critic)

\* the inherited optimization: the actor network and its distributions
ActorOptimizationVariables ==
    NetworkVariables(network) \o get_distributions_variables(distributions)

\* target_network_optimizer.minimize(variables=..., source_variables=...)
TargetOptimizationVariables ==
    NetworkVariables(target_network)
        \o get_distributions_variables(target_distributions)
TargetOptimizationSources ==
    NetworkVariables(network) \o get_distributions_variables(distributions)

TargetCriticOptimizationVariablesAliased == NetworkVariables(target_critic_aliased)

\* target_critic_optimizer.minimize(variables=..., source_variables=...)
TargetCriticOptimizationVariables == NetworkVariables(target_critic)
TargetCriticOptimizationSources == NetworkVariables(critic)

\* time=self.timestep
TimeArgument == modelTimestep

\* A tensor of the graph: its value in one run, the variables the value is
\* computed from, and the variables a gradient taken through it reaches.
Tensor(value, reads) == [value |-> value, reads |-> reads, grad |-> reads]

\* A tensor fed by the caller (a placeholder of the batch)
Fed(value) == Tensor(value, {})

\* tf.stop_gradient: the same value, and no gradient passes
stop_gradient(t) == [t EXCEPT !.grad = {}]

\* requires_deterministic=True, passed to the parent constructor
requires_deterministic == TRUE

ActionsOfLiveActor(p, states, deterministic, noise) ==
    Tensor(p[Var(network, "W")] + p[Var(distributions, "W")] + states.value,
           Range(NetworkVariables(network))
               \cup Range(get_distributions_variables(distributions))
               \cup states.reads)

\* tf_target_actions_and_internals: the target network's embedding of the
\* states, parameterized by the target distribution, and a sample of it: the
\* distribution's own output when the sample is deterministic, and that
\* output moved by the sampling noise when it is not.
tf_target_actions_and_internals(p, states, deterministic, noise) ==
    LET embedding ==
            Tensor(p[Var(target_network, "W")] + states.value,
                   Range(NetworkVariables(target_network)) \cup states.reads)
        distr_params ==
            Tensor(p[Var(target_distributions, "W")] + embedding.value,
                   Range(get_distributions_variables(target_distributions))
                       \cup embedding.reads)
    IN  IF deterministic \/ requires_deterministic
        THEN distr_params
        ELSE Tensor(distr_params.value + noise, distr_params.reads)

\* DDPGCriticNetwork.tf_apply of the network c: a value computed from the
\* network's parameters, the states and the actions.
critic_apply(p, c, x) ==
    Tensor(p[Var(c, "W")] + x.states.value + x.actions.value,
           Range(NetworkVariables(c)) \cup x.states.reads \cup x.actions.reads)

\* tf_predict_q: return reward + self.discount * q_value
tf_predict_q(p, states, actions, reward) ==
    LET q_value == critic_apply(p, critic, [states |-> states, actions |-> actions])
    IN  Tensor(reward.value + modelConfig.discount * q_value.value,
               reward.reads \cup q_value.reads)

\* tf_predict_target_q: return reward + self.discount * q_value
tf_predict_target_q(p, states, actions, reward) ==
    LET q_value ==
            critic_apply(p, target_critic, [states |-> states, actions |-> actions])
    IN  Tensor(reward.value + modelConfig.discount * q_value.value,
               reward.reads \cup q_value.reads)

\* fn_critic_loss: tf.nn.l2_loss(predicted_q - real_q), in halves
fn_critic_loss(predicted_q, real_q) ==
    [ value |-> (predicted_q.value - real_q.value) * (predicted_q.value - real_q.value),
      reads |-> predicted_q.reads \cup real_q.reads,
      grad |-> predicted_q.grad \cup real_q.grad ]

\* The tensors tf_optimization builds before its sub-operations, evaluated
\* on the batch with the parameter values p.
OptimizationTensors(p, b, noise) ==
    LET states == Fed(b.states)
        actions == Fed(b.actions)
        reward == Fed(b.reward)
        next_states == Fed(b.next_states)
        target_actions ==
            tf_target_actions_and_internals(p, next_states, TRUE, noise)
        predicted_q ==
            stop_gradient(tf_predict_target_q(p, next_states, target_actions, reward))
        real_q == tf_predict_q(p, states, actions, reward)
    IN  [ target_actions |-> target_actions,
          predicted_q |-> predicted_q,
          real_q |-> real_q,
          \* critic_optimizer.minimize(arguments=dict(predicted_q, real_q),
          \*                           fn_loss=fn_critic_loss)
          critic_loss |-> fn_critic_loss(predicted_q, real_q),
          \* super().tf_optimization(..., reward=real_q, ...)
          reward |-> real_q,
          read |-> p ]

\* Optimizer.minimize: a gradient step gives every listed variable a new value
OptimizerStep(p, variables, new) ==
    [v \in DOMAIN p |-> IF v \in Range(variables) THEN new[v] ELSE p[v]]

\* variables := (1 - w) * variables + w * source_variables, w in halves
Blend(t, s, w) == t + ((w * (s - t)) \div 2)

\* Synchronization: whether a step at this time synchronizes
Synchronizes(time) == time % modelConfig.target_sync_frequency = 0

\* Synchronization.minimize: blends on the steps of its schedule, and is a
\* no-op on the others
SynchronizationStep(p, time, variables, sources) ==
    IF Synchronizes(time)
    THEN [v \in DOMAIN p |->
            IF \E i \in DOMAIN variables : variables[i] = v
            THEN LET i == CHOOSE i \in DOMAIN variables : variables[i] = v
                 IN  Blend(p[v], p[sources[i]], modelConfig.target_update_weight)
            ELSE p[v]]
    ELSE p

\* The variables=... argument of the minimize call that builds a sub-operation
VariablesOf(op) ==
    CASE op = "critic_optimization" -> Range(CriticOptimizationVariables)
      [] op = "optimization" -> Range(ActorOptimizationVariables)
      [] op = "target_optimization" -> Range(TargetOptimizationVariables)
      [] op = "target_critic_optimization" ->
            Range(TargetCriticOptimizationVariables)

\* The variables one sub-operation writes when it runs at this time.
Written(op, time) ==
    CASE op = "critic_optimization" -> Range(CriticOptimizationVariables)
      [] op = "optimization" -> Range(ActorOptimizationVariables)
      [] op = "target_optimization" ->
            IF Synchronizes(time) THEN Range(TargetOptimizationVariables) ELSE {}
      [] op = "target_critic_optimization" ->
            IF Synchronizes(time) THEN Range(TargetCriticOptimizationVariables)
                                  ELSE {}

Ran(op) ==
    /\ pending' = pending \ {op}
    /\ applied' = applied \cup {op}
    /\ writers' = [v \in DOMAIN writers |->
                     IF v \in Written(op, TimeArgument) THEN writers[v] \cup {op}
                                                        ELSE writers[v]]
    /\ UNCHANGED <<modelConfig, pc, raisedBy, built, builtOps, updateOp,
                   modelTimestep, stepTime, before, batch, tensors>>
    /\ UNCHANGED agentVars
    /\ UNCHANGED graphVars

\* Model.timestep advances between updates (one per acted timestep)
Tick ==
    /\ pc = "ready"
    /\ pending = {}
    /\ modelTimestep < MaxModelTimestep
    /\ modelTimestep' = modelTimestep + 1
    /\ UNCHANGED <<modelConfig, pc, raisedBy, built, builtOps, updateOp, params,
                   pending, applied, writers, stepTime, before,
                   batch, tensors>>
    /\ UNCHANGED agentVars
    /\ UNCHANGED graphVars

\* The caller runs the operation tf_optimization returned.  The grouped
\* sub-operations carry no control dependencies among them: they execute in
\* any order, and the run returns when all of them have.
BeginUpdate ==
    /\ pc = "ready"
    /\ pending = {}
    /\ pending' = updateOp
    /\ applied' = {}
    /\ writers' = [v \in ValuedVars |-> {}]
    /\ stepTime' = TimeArgument
    /\ before' = params
    /\ batch' \in Batches
    /\ tensors' = NoTensors
    /\ UNCHANGED <<modelConfig, pc, raisedBy, built, builtOps, updateOp, params,
                   modelTimestep>>
    /\ UNCHANGED agentVars
    /\ UNCHANGED graphVars

\* The run evaluates the tensors the optimizers consume, each once, from the
\* parameter values at that moment.  The optimizers depend on these tensors
\* and run after them; the synchronizations do not, and run before or after.
EvaluateTensors ==
    /\ pc = "ready"
    /\ pending # {}
    /\ tensors = NoTensors
    /\ \E noise \in NoiseVals :
         tensors' = OptimizationTensors(params, batch, noise)
    /\ UNCHANGED <<modelConfig, pc, raisedBy, built, builtOps, updateOp, params,
                   modelTimestep, pending, applied, writers, stepTime, before,
                   batch>>
    /\ UNCHANGED agentVars
    /\ UNCHANGED graphVars

RunCriticOptimization ==
    /\ "critic_optimization" \in pending
    /\ tensors # NoTensors
    /\ \E new \in [Range(CriticOptimizationVariables) -> ParamVals] :
         params' = OptimizerStep(params, CriticOptimizationVariables, new)
    /\ Ran("critic_optimization")

RunActorOptimization ==
    /\ "optimization" \in pending
    /\ tensors # NoTensors
    /\ \E new \in [Range(ActorOptimizationVariables) -> ParamVals] :
         params' = OptimizerStep(params, ActorOptimizationVariables, new)
    /\ Ran("optimization")

RunTargetOptimization ==
    /\ "target_optimization" \in pending
    /\ params' = SynchronizationStep(params, TimeArgument,
                     TargetOptimizationVariables, TargetOptimizationSources)
    /\ Ran("target_optimization")

RunTargetCriticOptimization ==
    /\ "target_critic_optimization" \in pending
    /\ params' = SynchronizationStep(params, TimeArgument,
                     TargetCriticOptimizationVariables,
                     TargetCriticOptimizationSources)
    /\ Ran("target_critic_optimization")

NextDPG ==
    \/ Initialize \/ BuildSubOp \/ BuildRaises \/ ReturnGroup \/ AssertNextStates
    \/ Tick \/ BeginUpdate \/ EvaluateTensors
    \/ RunCriticOptimization \/ RunActorOptimization
    \/ RunTargetOptimization \/ RunTargetCriticOptimization

SpecDPG == InitDPG /\ [][NextDPG]_vars

----------------------------------------------------------------------------
(* DPGTargetModel.get_variables                                            *)

\* the inherited get_variables: the actor network and its distributions, and
\* with include_non_trainable the actor optimizer's variables
ParentGetVariables(include_non_trainable) ==
    NetworkVariables(network) \o get_distributions_variables(distributions)
        \o (IF include_non_trainable THEN OptimizerVariables(optimizer, "adam")
                                     ELSE << >>)

get_variables(include_non_trainable) ==
    LET model_variables == ParentGetVariables(include_non_trainable)
        critic_variables ==
            NetworkVariables(critic)
                \o OptimizerVariables(critic_optimizer, modelConfig.critic_optimizer)
        target_variables ==
            NetworkVariables(target_network)
                \o get_distributions_variables(target_distributions)
                \o SynchronizationVariables(target_network_optimizer)
        target_critic_variables ==
            NetworkVariables(target_critic)
                \o SynchronizationVariables(target_critic_optimizer)
    IN  IF include_non_trainable
        THEN model_variables \o critic_variables \o target_variables
                 \o target_critic_variables
        ELSE model_variables \o critic_variables

----------------------------------------------------------------------------
(* Properties of DPGTargetModel                                            *)

Updating == pc = "ready" /\ DOMAIN before # {}

\* C1: the target parameters are written only by the two Synchronization
\* operations: no target parameter has the critic optimizer or the actor
\* optimization among its writers, and while neither synchronization of an
\* update has run the target parameters have the values they had when the
\* update started.
C1_TargetsWrittenOnlyBySynchronization ==
    /\ \A v \in TargetVars \cap DOMAIN writers : writers[v] \subseteq SyncOps
    /\ (Updating /\ applied \cap SyncOps = {}) =>
           \A v \in TargetVars : params[v] = before[v]

\* An update has run completely, its critic synchronization changed the
\* target critic, and both optimizers ran before that synchronization.
C1_Witness ==
    /\ Updating
    /\ applied = SubOps
    /\ writers[Var(target_critic, "W")] = {"target_critic_optimization"}
    /\ writers[Var(critic, "W")] = {"critic_optimization"}
    /\ params[Var(target_critic, "W")] # before[Var(target_critic, "W")]

\* C3: in an update whose timestep is not a multiple of the synchronization
\* frequency the target variables are left exactly as they were.
C3_TargetsChangeOnlyOnSchedule ==
    (Updating /\ stepTime % modelConfig.target_sync_frequency # 0) =>
        \A v \in TargetVars : params[v] = before[v]

\* An update off the schedule has run completely and changed live
\* parameters that differ from their targets.
C3_Witness ==
    /\ Updating
    /\ applied = SubOps
    /\ stepTime % modelConfig.target_sync_frequency # 0
    /\ params[Var(critic, "W")] # before[Var(critic, "W")]
    /\ params[Var(critic, "W")] # params[Var(target_critic, "W")]
    /\ params[Var(network, "W")] # params[Var(target_network, "W")]

\* C4: the four sub-steps are returned as one composite operation, which
\* exists only if all four were built, and whenever the caller is not inside
\* a run of it, the last update has applied all four sub-steps or none.
C4_UpdateIsOneCompositeOperation ==
    /\ (pc \in {"assert", "ready"}) => updateOp = SubOps
    /\ (raisedBy = "tf_optimization") => updateOp = {}
    /\ (pc = "ready" /\ pending = {}) => (applied = {} \/ applied = SubOps)

\* A run of the composite operation has returned, having changed parameters.
C4_Witness ==
    /\ pc = "ready"
    /\ pending = {}
    /\ applied = SubOps
    /\ \E v \in LiveActorVars : params[v] # before[v]
    /\ \E v \in LiveCriticVars : params[v] # before[v]

\* C5 (as claimed): get_variables(False) reports exactly the live actor and
\* live critic parameters, no target parameter and no optimizer variable;
\* get_variables(True) reports those and the target actor, target
\* distributions, target critic and the Synchronization variables.
C5_GetVariablesClaim ==
    (pc = "ready") =>
        /\ Range(get_variables(FALSE)) = LiveActorVars \cup LiveCriticVars
        /\ Range(get_variables(FALSE)) \subseteq Range(get_variables(TRUE))
        /\ TargetVars \subseteq Range(get_variables(TRUE))
        /\ Range(SynchronizationVariables(target_network_optimizer))
             \cup Range(SynchronizationVariables(target_critic_optimizer))
               \subseteq Range(get_variables(TRUE))

\* C6 (as claimed): when the constructor fails on the next-states assertion,
\* no network, optimizer or update operation has been built.
C6_AssertionFailsBeforeBuilding ==
    (raisedBy = "assert") => (built = {} /\ builtOps = << >> /\ updateOp = {})

Evaluated == pc = "ready" /\ tensors # NoTensors

\* The parameter assignments that agree with p on the variables vs and give
\* the other variables any values.
AgreeingOn(p, vs) ==
    { [v \in DOMAIN p |-> IF v \in vs THEN p[v] ELSE other[v]] :
        other \in [DOMAIN p \ vs -> ParamVals] }

\* C15: once an update has evaluated its tensors, target_actions is the
\* target actor's deterministic output on next_states (the same whatever the
\* sampling noise), predicted_q is reward + discount * target_critic(
\* next_states, target_actions) for the parameter values the run read, it is
\* computed from target parameters only, no gradient passes through it and
\* it is the target the critic loss regresses on; and when the critic
\* optimizer is about to consume it, parameter values that differ from those
\* read in live parameters alone give the same predicted_q.
C15_PredictedQIsTheBootstrappedTarget ==
    Evaluated =>
        \A p \in {tensors.read}, next_states \in {Fed(batch.next_states)} :
            /\ \A noise \in NoiseVals :
                   tensors.target_actions =
                       tf_target_actions_and_internals(p, next_states, TRUE, noise)
            /\ tensors.target_actions.reads
                   \subseteq TargetActorVars \cup TargetDistributionVars
            /\ tensors.predicted_q.value =
                   batch.reward + modelConfig.discount *
                       critic_apply(p, target_critic,
                           [ states |-> next_states,
                             actions |-> tensors.target_actions ]).value
            /\ tensors.predicted_q.reads \subseteq TargetVars
            /\ tensors.predicted_q.grad = {}
            /\ ("critic_optimization" \in pending) =>
                   \A q \in AgreeingOn(p, TargetVars) :
                       \A actions \in
                            {tf_target_actions_and_internals(q, next_states,
                                                             TRUE, 0)} :
                           tf_predict_target_q(q, next_states, actions,
                                               Fed(batch.reward)).value
                               = tensors.predicted_q.value
            /\ tensors.critic_loss.value =
                   (tensors.predicted_q.value - tensors.real_q.value)
                       * (tensors.predicted_q.value - tensors.real_q.value)

\* An update has evaluated predicted_q on a batch with a reward, from target
\* parameters that all differ from the live ones, and has run completely.
C15_Witness ==
    /\ Evaluated
    /\ applied = SubOps
    /\ batch.reward = 1
    /\ tensors.read[Var(target_critic, "W")] # tensors.read[Var(critic, "W")]
    /\ tensors.read[Var(target_network, "W")] # tensors.read[Var(network, "W")]
    /\ tensors.read[Var(target_distributions, "W")]
           # tensors.read[Var(distributions, "W")]
    /\ tensors.predicted_q.value > batch.reward

\* C16 (as claimed): the real_q that enters the critic loss and that the
\* actor update receives as its reward is the live critic's output for the
\* batch, critic(states, actions), and nothing is added to it.
C16_RealQIsTheCriticOutput ==
    Evaluated =>
        \A output \in
             {critic_apply(tensors.read, critic,
                  [ states |-> Fed(batch.states),
                    actions |-> Fed(batch.actions) ])} :
            /\ tensors.real_q.value = output.value
            /\ tensors.reward.value = output.value
            /\ tensors.critic_loss.value =
                   (tensors.predicted_q.value - output.value)
                       * (tensors.predicted_q.value - output.value)

\* What a synchronization that runs after both optimizers leaves in its
\* variables: each blended with its source as the optimizers left it.
BlendedWithUpdated(variables, sources) ==
    \A i \in DOMAIN variables :
        params[variables[i]] =
            Blend(before[variables[i]], params[sources[i]],
                  modelConfig.target_update_weight)

\* C17 (as claimed): the sub-steps take effect in the protocol order, so when
\* an update on a synchronizing step has run completely, every target
\* parameter is the blend of its old value with the live parameter as the
\* CriticUpdate and ActorUpdate of that same update left it (with update
\* weight 1: equal to it).
C17_SynchronizationFollowsTheUpdates ==
    (Updating /\ pending = {} /\ applied = SubOps /\ Synchronizes(stepTime)) =>
        /\ BlendedWithUpdated(TargetOptimizationVariables,
                              TargetOptimizationSources)
        /\ BlendedWithUpdated(TargetCriticOptimizationVariables,
                              TargetCriticOptimizationSources)

\* C18: when tf_optimization has returned the composite operation, no
\* parameter is in the variable list of two of its four sub-operations, and
\* in every run of it, whatever the order its sub-operations execute in, no
\* parameter is written by more than one of them.
C18_AtMostOneWriter ==
    /\ (pc = "assert") =>
           \A a \in updateOp, b \in updateOp :
               (a # b) => VariablesOf(a) \cap VariablesOf(b) = {}
    /\ \A v \in DOMAIN writers : Cardinality(writers[v]) <= 1

\* A synchronizing update has run completely and has written every
\* parameter, live and target, each by one sub-operation.
C18_Witness ==
    /\ Updating
    /\ applied = SubOps
    /\ Synchronizes(stepTime)
    /\ \A v \in ValuedVars : Cardinality(writers[v]) = 1
    /\ { writers[v] : v \in ValuedVars } = { {op} : op \in SubOps }

----------------------------------------------------------------------------
(* Graph construction: Layer / Network objects, their templates and the    *)
(* parameters the templates capture (layer.py, network.py).                *)

MaxLayers == 2     \* length of a layers_spec
MaxNetworks == 2   \* networks constructed from the same specification

\* How often a network's apply template has been invoked: never, once, or
\* again and again (any number of times above one).
CallsAfter(calls) == IF calls = "never" THEN "once" ELSE "again"

LayerTypes == {"dense", "linear", "nonlinearity", "flatten", "conv2d", "lstm"}
LayerSpecs == UNION { [1..k -> LayerTypes] : k \in 1..MaxLayers }
InputRanks == {2, 3, 4}

\* What a model constructs more than once: a LayeredNetwork from one
\* layers_spec, or a DDPGCriticNetwork(scope='critic').
\* What is passed as x (for the critic: as x['states'] and x['actions']): a
\* tensor, or a dict of tensors with no, one or two entries.
InputForms == {"tensor", "dict0", "dict1", "dict2"}

IsDict(x) == x # "tensor"

\* len(x) of a dict
DictLen(x) == CASE x = "dict0" -> 0 [] x = "dict1" -> 1 [] x = "dict2" -> 2

\* The form of the input and the rank of its tensors are varied one at a time.
GraphConfigs ==
    { c \in [ kind : {"layered"}, layers_spec : LayerSpecs, rank : InputRanks,
              x : InputForms, x_actions : {"tensor"} ] :
          c.x = "tensor" \/ c.rank = 2 }
    \cup
    { c \in [ kind : {"ddpg-critic"}, layers_spec : {<<"dense", "dense", "dense">>},
              rank : InputRanks, x : InputForms, x_actions : InputForms ] :
          (c.x = "dict1" /\ c.x_actions = "dict1") \/ c.rank = 2 }

\* Names are character strings, compared as Python compares str: they are
\* modelled as sequences of character codes.
APPLY == <<97, 112, 112, 108, 121>>     \* 'apply'
UNDERSCORE == <<95>>                    \* '_'
SLASH == <<47>>                         \* '/'
NAME_W == <<87>>                        \* 'W'
NAME_b == <<98>>                        \* 'b'
\* 'lstm_cell/kernel' and 'lstm_cell/bias'
NAME_kernel == <<108, 115, 116, 109, 95, 99, 101, 108, 108, 47,
                 107, 101, 114, 110, 101, 108>>
NAME_bias == <<108, 115, 116, 109, 95, 99, 101, 108, 108, 47, 98, 105, 97, 115>>

\* '%d' % n
RECURSIVE Decimal(_)
Decimal(n) ==
    IF n < 10 THEN <<48 + n>> ELSE Decimal(n \div 10) \o <<48 + (n % 10)>>

\* a < b for two str
RECURSIVE LessFrom(_, _, _)
LessFrom(a, b, i) ==
    IF i > Len(a) THEN i <= Len(b)
    ELSE IF i > Len(b) THEN FALSE
    ELSE IF a[i] # b[i] THEN a[i] < b[i]
    ELSE LessFrom(a, b, i + 1)

Less(a, b) == LessFrom(a, b, 1)

\* sorted(keys)
RECURSIVE sorted(_)
sorted(keys) ==
    IF keys = {} THEN << >>
    ELSE LET least == CHOOSE k \in keys : \A other \in keys \ {k} : Less(k, other)
         IN  <<least>> \o sorted(keys \ {least})

\* d[k] = v on a dict
Put(d, k, v) == [x \in (DOMAIN d) \cup {k} |-> IF x = k THEN v ELSE d[x]]

\* The variable scope tf.make_template(name_='apply', create_scope_now_=True)
\* opens: the name made unique in the graph, 'apply', 'apply_1', 'apply_2', ...
UniqueVariableScope(name, count) ==
    IF count = 0 THEN name ELSE name \o UNDERSCORE \o Decimal(count)

\* Layer.__init__ / Network.__init__: an empty variables dict and the apply
\* template, whose scope is opened (and named) now.  The scope argument names
\* a tf.name_scope only.  g is the graph: its objects and its scope count.
NewObject(g, kind, scope, sub, num_internals) ==
    [ objs |-> Append(g.objs,
                      [ kind |-> kind,
                        name_scope |-> scope,
                        variable_scope |-> UniqueVariableScope(APPLY, g.scopeCount),
                        created |-> FALSE,
                        variables |-> EmptyMap,
                        sub |-> sub,
                        num_internals |-> num_internals ]),
      scopeCount |-> g.scopeCount + 1 ]

\* Layer.from_spec: the layer's constructor.  Dense constructs its Linear and
\* its Nonlinearity before its own templates, Conv2d its Nonlinearity.
ConstructLayer(g, type) ==
    LET id == Len(g.objs)
    IN  CASE type = "dense" ->
                NewObject(NewObject(NewObject(g, "linear", "linear", <<>>, 0),
                                    "nonlinearity", "nonlinearity", <<>>, 0),
                          "dense", "dense", <<id + 1, id + 2>>, 0)
          [] type = "conv2d" ->
                NewObject(NewObject(g, "nonlinearity", "nonlinearity", <<>>, 0),
                          "conv2d", "conv2d", <<id + 1>>, 0)
          [] type = "lstm" -> NewObject(g, "lstm", "lstm", <<>>, 1)
          [] OTHER -> NewObject(g, type, type, <<>>, 0)

\* for layer_spec in layers_spec: layer = Layer.from_spec(...); add_layer(layer)
RECURSIVE AddLayers(_, _, _, _)
AddLayers(g, net, types, i) ==
    IF i > Len(types) THEN g
    ELSE LET g1 == ConstructLayer(g, types[i])
         IN  AddLayers([g1 EXCEPT !.objs[net].sub = Append(@, Len(g1.objs))],
                       net, types, i + 1)

\* LayeredNetwork.__init__ and DDPGCriticNetwork.__init__: the network's own
\* templates first, then its layers in order.
ConstructNetwork(g, kind, layers_spec, scope) ==
    LET g0 == NewObject(g, kind, scope, <<>>, 0)
    IN  AddLayers(g0, Len(g0.objs), layers_spec, 1)

ScopeArgument(kind) == IF kind = "ddpg-critic" THEN "critic" ELSE "layered-network"

----------------------------------------------------------------------------
(* Invoking a template.  a is the run of one call: the objects, the store, *)
(* whether the call is still running (ok) or has raised, and the rank of   *)
(* the tensor handed on.                                                   *)

\* One variables dict shared by every object.
VariablesOfAllObjects(o) == 1

\* The dict the custom_getter of object o records into: self.variables.
VariablesOwner(o) == o

\* A getter that records in the dict of every template that is running.
EveryEnclosingScope(stack) == Range(stack)

\* The templates whose custom_getter a tf.get_variable goes through: the scope
\* a template captured at construction carries the custom_getter of that
\* template alone, whatever templates are running around it.
RecordingScopes(stack) == {stack[Len(stack)]}

\* A template that never enters its scope for reuse.
NeverReuse(created) == FALSE

\* A template enters its scope for reuse once a call of it has completed.
ReuseMode(created) == created

\* tf.get_variable(name=...) inside the template of object o: the variable
\* <scope>/<name> is created (in the template's first call) or looked up (in
\* later calls), and the custom_getter records it under its full name.
\* Creating a name that exists, or reusing one that does not, raises.
GetVariable(a, o, name, reuse) ==
    LET full == a.objs[o].variable_scope \o SLASH \o name
        exists == full \in DOMAIN a.store
        variable == IF exists THEN a.store[full]
                    ELSE [name |-> full, serial |-> a.serial]
        owners == { VariablesOwner(x) : x \in RecordingScopes(a.stack) }
    IN  IF ~a.ok THEN a
        ELSE IF reuse # exists THEN [a EXCEPT !.ok = FALSE]
        ELSE [a EXCEPT !.store = Put(@, full, variable),
                       !.serial = IF exists THEN @ ELSE @ + 1,
                       !.objs = [x \in DOMAIN @ |->
                                    IF x \in owners
                                    THEN [@[x] EXCEPT !.variables =
                                                          Put(@, full, variable)]
                                    ELSE @[x]]]

Raise(a) == [a EXCEPT !.ok = FALSE]

\* A layer without a check of util.rank(x).
AcceptsAnyRank(kind, rank) == TRUE

\* The rank check that opens tf_apply: Linear and Lstm require rank 2, Conv2d
\* requires rank 4, the other classes check nothing.
AcceptsRank(kind, rank) ==
    CASE kind \in {"linear", "lstm"} -> rank = 2
      [] kind = "conv2d" -> rank = 4
      [] OTHER -> TRUE

\* What one call of the template of object o did: the rank it was given,
\* whether it raised and how many variables the store created during it.
Logged(a, r, o) ==
    [ object |-> o, kind |-> a.objs[o].kind, rank |-> a.rank,
      raised |-> ~r.ok, created |-> r.serial - a.serial,
      args |-> a.args, returned |-> r.returned ]

\* if isinstance(x, dict): if len(x) != 1: raise ...; x = next(iter(x.values()))
SingleInput(a, x) ==
    IF a.ok /\ IsDict(x) /\ DictLen(x) # 1 THEN Raise(a) ELSE a

\* assert x: bool() of an empty dict is False, bool() of a tf.Tensor raises.
AssertTruthy(a, x) ==
    IF a.ok /\ ~(IsDict(x) /\ DictLen(x) > 0) THEN Raise(a) ELSE a

\* The network has dealt with its input and goes on to its layers.
ReachLayers(a) == [a EXCEPT !.reached = a.ok]

\* An index that is not advanced from layer to layer.
SameIndex(index, num_internals) == index

\* index += layer.num_internals
NextIndex(index, num_internals) == index + num_internals

\* What Lstm.tf_apply returns next to its output: (internal_output,), computed
\* from the state it was given.
LstmInternalOutput(o, args) == <<[layer |-> o, state |-> args[1]]>>

RECURSIVE TemplateCall(_, _)
RECURSIVE TfApply(_, _, _)
RECURSIVE ApplyEach(_, _, _, _)
RECURSIVE ApplyLayers(_, _, _)

\* self.apply(...): the template runs tf_apply inside its own scope and is
\* marked as having created its variables when tf_apply returns.
TemplateCall(a, o) ==
    IF ~a.ok THEN a
    ELSE LET r == TfApply([a EXCEPT !.stack = Append(@, o)], o,
                          ReuseMode(a.objs[o].created))
             done == [r EXCEPT !.log = Append(@, Logged(a, r, o)),
                               !.stack = a.stack]
         IN  IF r.ok THEN [done EXCEPT !.objs[o].created = TRUE] ELSE done

\* The objects of seq in order, through their templates (layer.apply) or
\* directly (layer.tf_apply), until one raises.
ApplyEach(a, seq, i, templated) ==
    IF i > Len(seq) \/ ~a.ok THEN a
    ELSE ApplyEach(IF templated THEN TemplateCall(a, seq[i])
                   ELSE TfApply(a, seq[i], FALSE),
                   seq, i + 1, templated)

\* The loop of LayeredNetwork.tf_apply: layer i is given the next
\* num_internals entries of internals, and what it returns next to its output
\* extends internal_outputs.  Reading past the end of internals raises.
ApplyLayers(a, layers, i) ==
    IF i > Len(layers) \/ ~a.ok THEN a
    ELSE LET num == a.objs[layers[i]].num_internals
         IN  IF a.index + num > Len(a.internals) THEN Raise(a)
             ELSE LET layer_internals == [n \in 1..num |-> a.internals[a.index + n]]
                      r == TemplateCall([a EXCEPT !.index = NextIndex(@, num),
                                                  !.args = layer_internals],
                                        layers[i])
                  IN  ApplyLayers([r EXCEPT !.internal_outputs = @ \o r.returned,
                                            !.returned = <<>>,
                                            !.args = <<>>],
                                  layers, i + 1)

\* tf_apply of each class.
TfApply(a, o, reuse) ==
    LET kind == a.objs[o].kind
    IN  CASE ~AcceptsRank(kind, a.rank) -> Raise(a)
          [] kind = "linear" ->
                GetVariable(GetVariable(a, o, NAME_W, reuse), o, NAME_b, reuse)
          [] kind = "conv2d" -> GetVariable(a, o, NAME_W, reuse)
          [] kind = "lstm" ->
                LET r == GetVariable(GetVariable(a, o, NAME_kernel, reuse),
                                     o, NAME_bias, reuse)
                IN  [r EXCEPT !.returned = LstmInternalOutput(o, a.args)]
          [] kind = "flatten" -> [a EXCEPT !.rank = 2]
          [] kind = "nonlinearity" -> a
          [] kind = "dense" -> ApplyEach(a, a.objs[o].sub, 1, TRUE)
          [] kind = "layered" ->
                ApplyLayers(ReachLayers(SingleInput(a, a.x)), a.objs[o].sub, 1)
          [] kind = "ddpg-critic" ->
                ApplyEach(ReachLayers(SingleInput(SingleInput(AssertTruthy(a, a.x),
                                                              a.x),
                                                  a.x_actions)),
                          a.objs[o].sub, 1, FALSE)

\* The objects a network is made of: itself, its layers and their parts.
RECURSIVE Owned(_)
Owned(o) == {o} \cup UNION { Owned(objs[o].sub[i]) : i \in DOMAIN objs[o].sub }

\* Layer.internal_inputs / Layer.internal_inits: one entry for an Lstm, none
\* for the other classes.
LayerInternalInputs(os, o) ==
    IF os[o].kind = "lstm" THEN <<[placeholder |-> o]>> ELSE << >>

LayerInternalInits(os, o) ==
    IF os[o].kind = "lstm" THEN <<[zeros |-> o]>> ELSE << >>

RECURSIVE Extend(_, _)
Extend(lists, i) == IF i > Len(lists) THEN << >> ELSE lists[i] \o Extend(lists, i + 1)

\* LayerBasedNetwork.internal_inputs / internal_inits
internal_inputs(os, n) ==
    Extend([i \in DOMAIN os[n].sub |-> LayerInternalInputs(os, os[n].sub[i])], 1)

internal_inits(os, n) ==
    Extend([i \in DOMAIN os[n].sub |-> LayerInternalInits(os, os[n].sub[i])], 1)

\* The internals the caller passes to apply: one per entry of internal_inits,
\* the k-th of them called k.
Incoming(os, n) == [k \in 1..Len(internal_inits(os, n)) |-> k]

\* variables dict of every object of network n
Mappings(os, n) == [o \in Owned(n) |-> os[o].variables]

NoAgent ==
    /\ config = CHOOSE c \in Configs : TRUE
    /\ episode = 0 /\ timestep = 0 /\ hasInternal = FALSE
    /\ internal = 0 /\ next_internal = 0
    /\ ppCount = EmptyMap /\ trace = NoTrace /\ called = NoCalls

InitGraph ==
    /\ NoAgent
    /\ NoModel
    /\ graphConfig \in GraphConfigs
    /\ scopeCount = 0
    /\ store = EmptyMap
    /\ serial = 0
    /\ objs = <<>>
    /\ nets = <<>>
    /\ hist = EmptyMap

\* One more network of the configured class is constructed.
Construct ==
    /\ Len(nets) < MaxNetworks
    /\ LET g == ConstructNetwork([objs |-> objs, scopeCount |-> scopeCount],
                                 graphConfig.kind, graphConfig.layers_spec,
                                 ScopeArgument(graphConfig.kind))
           n == Len(objs) + 1
       IN  /\ objs' = g.objs
           /\ scopeCount' = g.scopeCount
           /\ nets' = Append(nets, n)
           /\ hist' = Put(hist, n, [calls |-> "never", firstOk |-> FALSE, lastOk |-> FALSE,
                                    log |-> <<>>, reached |-> FALSE,
                                    internal_outputs |-> <<>>,
                                    first |-> EmptyMap])
    /\ UNCHANGED <<graphConfig, store, serial>>
    /\ UNCHANGED agentVars
    /\ UNCHANGED dpgVars

\* network.apply(x) on an input of the configured rank.
Apply(n) ==
    /\ \E r \in {TemplateCall([objs |-> objs, store |-> store, serial |-> serial,
                              ok |-> TRUE, rank |-> graphConfig.rank,
                              log |-> <<>>, x |-> graphConfig.x,
                              x_actions |-> graphConfig.x_actions,
                              reached |-> FALSE, stack |-> <<>>,
                              internals |-> Incoming(objs, n), index |-> 0,
                              args |-> <<>>, returned |-> <<>>,
                              internal_outputs |-> <<>>], n)} :
           /\ objs' = r.objs
           /\ store' = r.store
           /\ serial' = r.serial
           /\ hist' = [hist EXCEPT ![n] =
                  [ calls |-> CallsAfter(@.calls),
                    firstOk |-> IF @.calls = "never" THEN r.ok ELSE @.firstOk,
                    lastOk |-> r.ok,
                    log |-> r.log,
                    reached |-> r.reached,
                    internal_outputs |-> r.internal_outputs,
                    first |-> IF @.calls = "never" THEN Mappings(r.objs, n) ELSE @.first ]]
    /\ UNCHANGED <<graphConfig, scopeCount, nets>>
    /\ UNCHANGED agentVars
    /\ UNCHANGED dpgVars

NextGraph ==
    \/ Construct
    \/ \E i \in DOMAIN nets : Apply(nets[i])

SpecGraph == InitGraph /\ [][NextGraph]_vars

----------------------------------------------------------------------------
(* get_variables of layers and networks.                                   *)

\* The keys of a variables dict in the order they were inserted.
KeysInInsertionOrder(variables) ==
    LET ByCreation(k) == variables[k].serial
        RECURSIVE Ordered(_)
        Ordered(keys) ==
            IF keys = {} THEN << >>
            ELSE LET first == CHOOSE k \in keys :
                                 \A other \in keys : ByCreation(k) <= ByCreation(other)
                 IN  <<first>> \o Ordered(keys \ {first})
    IN  Ordered(DOMAIN variables)

\* The order the keys of a variables dict are listed in: sorted(self.variables)
KeyOrder(variables) == sorted(DOMAIN variables)

\* Layer.get_variables / Network.get_variables
OwnVariables(o) ==
    LET variables == objs[VariablesOwner(o)].variables
        keys == KeyOrder(variables)
    IN  [i \in 1..Len(keys) |-> variables[keys[i]]]

RECURSIVE Flat(_, _)
Flat(lists, i) == IF i > Len(lists) THEN << >> ELSE lists[i] \o Flat(lists, i + 1)

\* Dense.get_variables and LayerBasedNetwork.get_variables: the own list, then
\* the list of each part / layer in order.  Every other class: the own list.
RECURSIVE ObjectVariables(_)
ObjectVariables(o) ==
    IF objs[o].kind \in {"dense", "layered", "ddpg-critic"}
    THEN OwnVariables(o)
         \o Flat([i \in DOMAIN objs[o].sub |-> ObjectVariables(objs[o].sub[i])], 1)
    ELSE OwnVariables(o)

IsAscendingByName(list) ==
    \A l \in {list} : \A i \in 1..(Len(l) - 1) : Less(l[i].name, l[i + 1].name)

----------------------------------------------------------------------------
(* Properties of graph construction.                                       *)

Parameters(n) == Range(ObjectVariables(n))

Applied(n) == hist[n].calls # "never" /\ hist[n].lastOk

\* C2: a live network and its target copy - two networks constructed from the
\* same specification under the same scope name, such as the two
\* DDPGCriticNetwork(scope='critic') - never have a parameter in common:
\* neither a parameter object nor a parameter name.
C2_TargetParametersAreIndependent ==
    \A i, j \in DOMAIN nets :
        (i < j /\ objs[nets[i]].name_scope = objs[nets[j]].name_scope)
        => \A live \in {Parameters(nets[i])}, target \in {Parameters(nets[j])} :
              /\ live \cap target = {}
              /\ { v.name : v \in live } \cap { v.name : v \in target } = {}

\* The critic and the target critic, both of scope 'critic', have been
\* constructed and applied, and each has the parameters of its three layers.
C2_Witness ==
    /\ graphConfig.kind = "ddpg-critic"
    /\ Len(nets) = 2
    /\ \A i \in DOMAIN nets :
          /\ objs[nets[i]].name_scope = "critic"
          /\ Applied(nets[i])
          /\ Cardinality(Parameters(nets[i])) = 6

\* C7: however often a network's apply template is invoked on the same input
\* shape, every object of the network keeps the name-to-parameter mapping its
\* first invocation left, and a later invocation completes exactly if the
\* first did: nothing is created anew, nothing is duplicated.
C7_TemplateInvocationIsIdempotent ==
    \A i \in DOMAIN nets :
        LET n == nets[i]
        IN  hist[n].calls # "never"
            => /\ Mappings(objs, n) = hist[n].first
               /\ hist[n].lastOk = hist[n].firstOk

\* A network that owns parameters has been invoked a second time.
C7_Witness ==
    \E i \in DOMAIN nets :
        /\ hist[nets[i]].calls = "again"
        /\ hist[nets[i]].firstOk
        /\ Parameters(nets[i]) # {}

\* The part of a list of parameters that object o recorded.
SegmentOf(list, o) ==
    SelectSeq(list, LAMBDA v : v.name \in DOMAIN objs[VariablesOwner(o)].variables)

\* C8 as stated: the list LayerBasedNetwork.get_variables returns is in
\* ascending name order.
C8_NetworkListIsAscending ==
    \A i \in DOMAIN nets : IsAscendingByName(ObjectVariables(nets[i]))

\* C8, corrected: in the list a network's get_variables returns, the
\* parameters of each object the network is made of are in ascending name
\* order, and every parameter is listed once; across objects the list follows
\* layer order, so that a parameter precedes another only if its layer created
\* it earlier or its name is the smaller one.
C8_EachBlockIsAscending ==
    \A i \in DOMAIN nets :
        LET n == nets[i]
        IN  /\ \A o \in Owned(n) : IsAscendingByName(OwnVariables(o))
            /\ \A list \in {ObjectVariables(n)} :
                  /\ \A o \in Owned(n) : IsAscendingByName(SegmentOf(list, o))
                  /\ \A j, k \in DOMAIN list :
                        (j < k) => /\ list[j] # list[k]
                                   /\ list[j].serial < list[k].serial
                                      \/ Less(list[j].name, list[k].name)

\* A network whose list is not in ascending name order although the list of
\* every one of its objects is: its layers' scopes are 'apply_8' and
\* 'apply_11', and '1' sorts before '8'.
C8_Witness ==
    \E i \in DOMAIN nets :
        /\ Applied(nets[i])
        /\ ~IsAscendingByName(ObjectVariables(nets[i]))
        /\ \A o \in Owned(nets[i]) : IsAscendingByName(OwnVariables(o))

InputsOf(c) == IF c.kind = "ddpg-critic" THEN {c.x, c.x_actions} ELSE {c.x}

\* C14 as stated: a network (LayeredNetwork for its input, DDPGCriticNetwork
\* for its states and for its actions input) goes on to its layers when every
\* input is a tensor or a mapping of one entry, and raises before applying
\* any layer when an input is a mapping of more than one entry.
C14_SingleInputRule ==
    \A i \in DOMAIN nets :
        LET h == hist[nets[i]]
        IN  (h.calls # "never")
            => /\ (InputsOf(graphConfig) \subseteq {"tensor", "dict1"}) => h.reached
               /\ (\E x \in InputsOf(graphConfig) : IsDict(x) /\ DictLen(x) > 1)
                  => ~h.lastOk /\ ~h.reached /\ Len(h.log) = 1

RECURSIVE SumInternals(_, _)
\* num_internals of the first k layers of network n, summed
SumInternals(n, k) ==
    IF k = 0 THEN 0 ELSE SumInternals(n, k - 1) + objs[objs[n].sub[k]].num_internals

\* What the last call of network n logged for its layer i.
EntryOf(n, i) ==
    LET log == hist[n].log
    IN  log[CHOOSE k \in DOMAIN log : log[k].object = objs[n].sub[i]]

LayerWasApplied(n, i) ==
    \E k \in DOMAIN hist[n].log : hist[n].log[k].object = objs[n].sub[i]

\* C19: in LayeredNetwork.apply, layer i is given the num_internals(i)
\* incoming internal states that follow those of the layers before it, so the
\* slices of two layers do not overlap; when the call completes, the outgoing
\* internal states are what the layers returned, in layer order, and there are
\* as many of them as num_internals sums to, as internal_inputs() and as
\* internal_inits() have entries.
C19_InternalsAreThreadedByArity ==
    \A j \in DOMAIN nets :
        LET n == nets[j]
            layers == objs[n].sub
            incoming == Incoming(objs, n)
        IN  (objs[n].kind = "layered" /\ hist[n].calls # "never")
            => /\ \A i \in DOMAIN layers :
                     LayerWasApplied(n, i)
                     => EntryOf(n, i).args =
                            [k \in 1..objs[layers[i]].num_internals |->
                                 incoming[SumInternals(n, i - 1) + k]]
               /\ hist[n].lastOk
                  => /\ hist[n].internal_outputs =
                            Extend([i \in DOMAIN layers |-> EntryOf(n, i).returned], 1)
                     /\ Len(hist[n].internal_outputs) = SumInternals(n, Len(layers))
                     /\ Len(internal_inputs(objs, n)) = SumInternals(n, Len(layers))
                     /\ Len(internal_inits(objs, n)) = SumInternals(n, Len(layers))

\* A network of two Lstm layers has been applied: the first was given the
\* first incoming internal state, the second the second, and two came out.
C19_Witness ==
    \E j \in DOMAIN nets :
        LET n == nets[j]
        IN  /\ objs[n].kind = "layered"
            /\ Applied(n)
            /\ Len(objs[n].sub) = 2
            /\ EntryOf(n, 1).args = <<1>>
            /\ EntryOf(n, 2).args = <<2>>
            /\ Len(hist[n].internal_outputs) = 2

\* The objects whose variables dict holds parameter v.
ScopesOf(v) ==
    { o \in DOMAIN objs :
          v.name \in DOMAIN objs[o].variables /\ objs[o].variables[v.name] = v }

Occurrences(list, v) == Cardinality({ k \in DOMAIN list : list[k] = v })

\* C20: every parameter of the store is recorded in the variables dict of
\* exactly one object, also when it was created inside nested templates, and
\* the list get_variables returns for a network or for a Dense layer holds
\* each parameter of the objects it is made of exactly once.
C20_OneOwningScope ==
    /\ \A name \in DOMAIN store : Cardinality(ScopesOf(store[name])) = 1
    /\ \A o \in DOMAIN objs :
          (objs[o].kind \in {"layered", "ddpg-critic", "dense"})
          => \A list \in {ObjectVariables(o)} :
                \A p \in Owned(o) :
                    \A name \in DOMAIN objs[p].variables :
                        Occurrences(list, objs[p].variables[name]) = 1

\* A LayeredNetwork with a Dense layer has been applied: the weights of the
\* Dense layer's Linear were created inside three nested templates and are
\* recorded by the Linear alone.
C20_Witness ==
    \E j \in DOMAIN nets :
        LET n == nets[j]
        IN  /\ objs[n].kind = "layered"
            /\ Applied(n)
            /\ objs[objs[n].sub[1]].kind = "dense"
            /\ Len(ObjectVariables(n)) >= 2
            /\ objs[n].variables = EmptyMap
            /\ objs[objs[n].sub[1]].variables = EmptyMap
            /\ ScopesOf(ObjectVariables(n)[1]) = {objs[objs[n].sub[1]].sub[1]}

====
